---------------------------- MODULE Spec2Model ----------------------------
(***************************************************************************)
(* A model of usbcar.py: the USBCar device controller (command writes,     *)
(* battery telemetry, release) and the UI control loop (pointer events,    *)
(* the command backplate, the battery estimate).                           *)
(***************************************************************************)
EXTENDS Integers, Sequences, FiniteSets, TLC

(* ------------------------------------------------------------------ *)
(* USBCar: the direction codes (usbcar.py 17-23)                       *)
(* ------------------------------------------------------------------ *)
FORWARD == 1
RIGHT == 2
REVERSE_RIGHT == 4
REVERSE == 8
REVERSE_LEFT == 16
LEFT == 32
STOP == 0

Directions == {STOP, FORWARD, RIGHT, REVERSE_RIGHT, REVERSE, REVERSE_LEFT, LEFT}

(* ------------------------------------------------------------------ *)
(* UI: canvas and arrow geometry (usbcar.py 65-68, 184-223)            *)
(* Coordinates are fixed point, scaled by SCALE; sqrt(2) is SQRT2/SCALE *)
(* ------------------------------------------------------------------ *)
WINDOW_W == 240
WINDOW_H == 180
K == 800
W == 10
SCALE == 1000
SQRT2 == 1414

\* a / sqrt(2) and a * sqrt(2) on fixed-point values
DivSqrt2(a) == (a * SCALE) \div SQRT2
MulSqrt2(a) == (a * SQRT2) \div SCALE

\* generate_arrows with the RIGHT block pasted again in place of the LEFT one
generate_arrows_left_as_right(k, w) ==
    LET x  == (WINDOW_W \div 2) * SCALE
        y  == (WINDOW_H \div 2) * SCALE
        rx == (WINDOW_W \div 2) * k
        ry == (WINDOW_H \div 2) * k
        ws == w * SCALE
        dx == DivSqrt2(rx)
        dy == DivSqrt2(ry)
        wd == MulSqrt2(ws)
    IN << <<x, y - ry, x - ws, y - ry + ws, x + ws, y - ry + ws>>,
          <<x + dx, y - dy, x + dx - wd, y - dy, x + dx, y - dy + wd>>,
          <<x + dx, y + dy, x + dx, y + dy - wd, x + dx - wd, y + dy>>,
          <<x, y + ry, x - ws, y + ry - ws, x + ws, y + ry - ws>>,
          <<x - dx, y + dy, x - dx + wd, y + dy, x - dx, y + dy - wd>>,
          <<x + dx, y - dy, x + dx - wd, y - dy, x + dx, y - dy + wd>> >>

\* the six triangles (x1, y1, x2, y2, x3, y3), in the order they are appended
generate_arrows(k, w) ==
    LET x  == (WINDOW_W \div 2) * SCALE
        y  == (WINDOW_H \div 2) * SCALE
        rx == (WINDOW_W \div 2) * k
        ry == (WINDOW_H \div 2) * k
        ws == w * SCALE
        dx == DivSqrt2(rx)
        dy == DivSqrt2(ry)
        wd == MulSqrt2(ws)
    IN << <<x, y - ry, x - ws, y - ry + ws, x + ws, y - ry + ws>>,
          <<x + dx, y - dy, x + dx - wd, y - dy, x + dx, y - dy + wd>>,
          <<x + dx, y + dy, x + dx, y + dy - wd, x + dx - wd, y + dy>>,
          <<x, y + ry, x - ws, y + ry - ws, x + ws, y + ry - ws>>,
          <<x - dx, y + dy, x - dx + wd, y + dy, x - dx, y + dy - wd>>,
          <<x - dx, y - dy, x - dx, y - dy + wd, x - dx + wd, y - dy>> >>

\* self._arrows after UI.__init__
arrows == generate_arrows(K, W)

\* int(v) of a non-negative fixed-point coordinate: truncation
ToInt(v) == v \div SCALE

Canvas == (0 .. WINDOW_W - 1) \X (0 .. WINDOW_H - 1)

\* twice the signed area of (a, b, p)
Cross(ax, ay, bx, by, px, py) == (bx - ax) * (py - ay) - (by - ay) * (px - ax)

\* gfxdraw.filled_trigon: the pixels of the triangle with integer corners,
\* its edges included
filled_trigon(x1, y1, x2, y2, x3, y3, p) ==
    LET d1 == Cross(x1, y1, x2, y2, p[1], p[2])
        d2 == Cross(x2, y2, x3, y3, p[1], p[2])
        d3 == Cross(x3, y3, x1, y1, p[1], p[2])
    IN  ~ ((d1 < 0 \/ d2 < 0 \/ d3 < 0) /\ (d1 > 0 \/ d2 > 0 \/ d3 > 0))

\* Color(r, 0, 0) stored in a 24-bit surface and read back as .r
Color(r) == r % 256

\* a command list of positions instead of direction codes
commands_by_index == <<1, 2, 3, 4, 5, 6>>

\* the command list in mirrored (counter-clockwise) order
commands_mirrored ==
    <<FORWARD, LEFT, REVERSE_LEFT, REVERSE, REVERSE_RIGHT, RIGHT>>

\* the order of commands UI.__init__ passes to setup_backplate
commands == <<FORWARD, RIGHT, REVERSE_RIGHT, REVERSE, REVERSE_LEFT, LEFT>>

Min(a, b) == IF a < b THEN a ELSE b

\* the pixel at p after fill(STOP) and the first n zipped fills, in order
RECURSIVE Paint(_, _, _, _)
Paint(arr, cmds, n, p) ==
    IF n = 0 THEN Color(STOP)
    ELSE LET a == arr[n]
         IN IF filled_trigon(ToInt(a[1]), ToInt(a[2]), ToInt(a[3]),
                             ToInt(a[4]), ToInt(a[5]), ToInt(a[6]), p)
            THEN Color(cmds[n])
            ELSE Paint(arr, cmds, n - 1, p)

\* the red channel of self._backplate at p after setup_backplate(cmds)
setup_backplate(arr, cmds, p) == Paint(arr, cmds, Min(Len(arr), Len(cmds)), p)

\* get_at raises IndexError outside the surface
InSurface(position) == position \in Canvas

\* get_direction_at reading the green channel, which every fill leaves 0
get_direction_at_green(position) == 0 * setup_backplate(arrows, commands, position)

get_direction_at(position) == setup_backplate(arrows, commands, position)


(* ------------------------------------------------------------------ *)
(* USBCar: command writes and telemetry (usbcar.py 45-61)              *)
(* ------------------------------------------------------------------ *)

\* largest byte count the transport is taken to report for a 1-byte write
MaxWritten == 2

\* what ctrl_transfer does: returns a byte count, or raises USBError
TransferOutcomes ==
    [err : {FALSE}, n : 0 .. MaxWritten] \cup [err : {TRUE}, n : {0}]

\* move accepting any non-empty write
move_at_least_one(ret) == ret >= 1

\* USBCar.move: the value returned when ctrl_transfer returns ret
move(ret) == ret = 1

\* what self._dev.read(0x81, 1, timeout) does: returns an array of at most one
\* byte, or raises USBError for a timeout or for another transport error
Bytes == 0 .. 255
ReadOutcomes ==
    [kind : {"data"}, data : {<<>>} \cup {<<b>> : b \in Bytes}]
        \cup [kind : {"timeout", "error"}, data : {<<>>}]

\* battery_status taking every byte from 0x85 up as 'charged'
battery_status_from_85(rd) ==
    IF rd.kind = "data"
    THEN IF Len(rd.data) > 0 /\ rd.data[1] = 5
         THEN [raised |-> FALSE, value |-> "charging"]
         ELSE IF Len(rd.data) > 0 /\ rd.data[1] >= 133
         THEN [raised |-> FALSE, value |-> "charged"]
         ELSE [raised |-> FALSE, value |-> "unknown"]
    ELSE [raised |-> FALSE, value |-> "out of the garage"]

\* USBCar.battery_status: raised is TRUE when the exception leaves the method
battery_status(rd) ==
    IF rd.kind = "data"
    THEN IF Len(rd.data) > 0 /\ rd.data[1] = 5
         THEN [raised |-> FALSE, value |-> "charging"]
         ELSE IF Len(rd.data) > 0 /\ rd.data[1] = 133
         THEN [raised |-> FALSE, value |-> "charged"]
         ELSE [raised |-> FALSE, value |-> "unknown"]
    ELSE [raised |-> FALSE, value |-> "out of the garage"]

(* ------------------------------------------------------------------ *)
(* UI: movement flag and battery estimate (usbcar.py 166-182)          *)
(* ------------------------------------------------------------------ *)

\* self._battery is None
None == -1

\* UI.move_car: the new self._stopped, given what USBCar.move returned
move_car(ok) == ~ ok

\* stop_car storing the negation, as move_car does
stop_car_negated(ok) == ~ ok

\* UI.stop_car: the new self._stopped, given what USBCar.move returned
stop_car(ok) == ok

\* update_battery saturating at 100
update_battery_saturating(battery, st) ==
    IF st = "charging"
    THEN IF battery = None THEN 0
         ELSE IF battery + 10 > 100 THEN 100 ELSE battery + 10
    ELSE IF st = "charged" THEN 100
    ELSE None

\* update_battery keeping the estimate on an 'unknown' sample
update_battery_keep(battery, st) ==
    IF st = "charging"
    THEN IF battery = None THEN 0 ELSE battery + 10
    ELSE IF st = "charged" THEN 100
    ELSE IF st = "unknown" THEN battery
    ELSE None

\* update_battery starting a charge at 10
update_battery_from_ten(battery, st) ==
    IF st = "charging"
    THEN IF battery = None THEN 10 ELSE battery + 10
    ELSE IF st = "charged" THEN 100
    ELSE None

\* UI.update_battery: the new self._battery
update_battery(battery, st) ==
    IF st = "charging"
    THEN IF battery = None THEN 0 ELSE battery + 10
    ELSE IF st = "charged" THEN 100
    ELSE None

\* UI.draw_indicator: the level drawn, in percent
draw_indicator(level) == level % 101

(* ------------------------------------------------------------------ *)
(* The program state                                                   *)
(* ------------------------------------------------------------------ *)
VARIABLES
    pc,            \* "init", "running", "exited" (sys.exit(0)) or "crashed"
    _stopped,      \* UI._stopped
    _battery,      \* UI._battery
    _had_driver,   \* USBCar._had_driver
    dev,           \* the device: present, kernel driver bound, interface claimed
    kernel0,       \* whether a kernel driver was bound before construction
    held,          \* the mouse buttons currently pressed
    ev,            \* the event (or step) handled last
    out,           \* the device calls made while handling ev, in order
    last_sent,     \* the last byte passed to ctrl_transfer, <<>> if none
    last_acked,    \* the last byte the device acknowledged, <<>> if none
    status,        \* what the last battery_status() returned
    charging_run,  \* 'charging' samples in a row since _battery was last None
    prev_battery,  \* self._battery before the last update_battery()
    rd,            \* telemetry decoding alone: the read outcome
    decoded,       \* telemetry decoding alone: what battery_status did with rd
    probe,         \* the backplate alone: a point, and what is painted there
    behind_quit    \* events of the batch still queued behind a handled QUIT

vars == <<pc, _stopped, _battery, _had_driver, dev, kernel0, held, ev, out,
          last_sent, last_acked, status, charging_run, prev_battery, rd,
          decoded, probe, behind_quit>>

\* largest estimate explored, in steps of 10
MaxLevelSteps == 11

\* pygame mouse buttons: 1 is the primary button
Buttons == {1, 3}

\* event positions: inside the FORWARD triangle, inside the LEFT triangle, on
\* the background, and right of the surface
FwdPos == <<120, 25>>
LeftPos == <<56, 43>>
BackPos == <<120, 90>>
OutPos == <<240, 90>>
EventPositions == {FwdPos, LeftPos, BackPos, OutPos}

\* the telemetry reads explored in the control loop
PollReads ==
    [kind : {"data"}, data : {<<>>, <<0>>, <<5>>, <<133>>, <<255>>}]
        \cup [kind : {"timeout", "error"}, data : {<<>>}]

NoPos == <<0, 0>>
Event(t, p, b) == [type |-> t, pos |-> p, button |-> b]
\* a device call: its payload, whether it raised, the count it returned and,
\* for a command write, what USBCar.move returned
Call(o, d, e, n, r) ==
    [op |-> o, payload |-> d, err |-> e, n |-> n, ok |-> r]

NoRead == [kind |-> "none", data |-> <<>>]

\* a point of the backplate for arrows of scale k and half-width w: the
\* triangles painted over it and the direction read there, once done
Probe(k, w, pt) ==
    [k |-> k, w |-> w, pt |-> pt, done |-> FALSE, hits |-> {}, looked |-> STOP]
NoProbe == Probe(K, W, NoPos)

\* most events explored behind a QUIT in one batch of pygame.event.get()
MaxQueued == 2
NoResult == [raised |-> FALSE, value |-> "none"]

\* the program before UI() is constructed
InitProgram ==
    /\ pc = "init"
    /\ _stopped = TRUE
    /\ _battery = None
    /\ _had_driver = FALSE
    /\ dev \in [present : BOOLEAN, driver : BOOLEAN, claimed : {FALSE}]
    /\ kernel0 = dev.driver
    /\ held = {}
    /\ ev = Event("NONE", NoPos, 0)
    /\ out = <<>>
    /\ last_sent = <<>>
    /\ last_acked = <<>>
    /\ status = "none"
    /\ charging_run = 0
    /\ prev_battery = None
    /\ rd = NoRead
    /\ decoded = NoResult
    /\ behind_quit = 0

Init == InitProgram /\ probe = NoProbe

\* the run of 'charging' samples after one more sample
NextRun(battery, st) ==
    IF st # "charging" THEN 0
    ELSE IF battery = None THEN 1
    ELSE IF charging_run > 0 THEN charging_run + 1
    ELSE 0

\* update_battery() applying the transition twice for one read
Poll_twice(r) ==
    LET res == battery_status(r)
        once == update_battery(_battery, res.value)
    IN /\ update_battery(once, res.value) <= 10 * MaxLevelSteps
       /\ _battery' = update_battery(once, res.value)
       /\ status' = res.value
       /\ charging_run' = NextRun(_battery, res.value)
       /\ prev_battery' = _battery

\* UI.update_battery() on the read outcome r: one read, one transition;
\* nothing is assigned when battery_status raises
Poll(r) ==
    LET res == battery_status(r)
    IN IF res.raised
       THEN UNCHANGED <<_battery, status, charging_run, prev_battery>>
       ELSE /\ update_battery(_battery, res.value) <= 10 * MaxLevelSteps
            /\ _battery' = update_battery(_battery, res.value)
            /\ status' = res.value
            /\ charging_run' = NextRun(_battery, res.value)
            /\ prev_battery' = _battery

ReadCall(r) == Call("read", 0, r.kind # "data", Len(r.data), FALSE)

\* USBCar.__init__ and UI.__init__
Construct(r) ==
    /\ pc = "init"
    /\ ev' = Event("INIT", NoPos, 0)
    /\ IF ~ dev.present
       THEN /\ pc' = "crashed"
            /\ out' = <<>>
            /\ UNCHANGED <<_stopped, _battery, _had_driver, dev, status,
                           charging_run, prev_battery>>
       ELSE /\ _had_driver' = dev.driver
            /\ dev' = [dev EXCEPT !.driver = FALSE, !.claimed = TRUE]
            /\ _stopped' = TRUE
            /\ out' = (IF dev.driver
                       THEN <<Call("detach_kernel_driver", 0, FALSE, 0, FALSE)>>
                       ELSE <<>>) \o <<ReadCall(r)>>
            /\ Poll(r)
            /\ pc' = IF battery_status(r).raised THEN "crashed" ELSE "running"
    /\ UNCHANGED <<kernel0, held, last_sent, last_acked, rd, decoded, probe, behind_quit>>

\* the window receives a pointer event at p when p is over it, or while a
\* button pressed over it is still held (the pointer is then grabbed)
Deliverable(p) == InSurface(p) \/ held # {}

\* self._car.move(d) with the transport doing x: the call made, and what the
\* device has been sent and has acknowledged
Transfer(d, x) ==
    /\ out' = <<Call("ctrl_transfer", d, x.err, x.n, ~ x.err /\ move(x.n))>>
    /\ last_sent' = <<d>>
    /\ last_acked' = IF ~ x.err /\ x.n = 1 THEN <<d>> ELSE last_acked

NoTransfer ==
    /\ out' = <<>>
    /\ UNCHANGED <<last_sent, last_acked>>

\* main_loop, MOUSEBUTTONDOWN: get_direction_at, then move_car
MouseButtonDown(p, b, x) ==
    /\ pc = "running"
    /\ b \notin held
    /\ Deliverable(p)
    /\ held' = held \cup {b}
    /\ ev' = Event("MOUSEBUTTONDOWN", p, b)
    /\ IF ~ InSurface(p)
       THEN /\ pc' = "crashed"
            /\ NoTransfer
            /\ UNCHANGED _stopped
       ELSE /\ Transfer(get_direction_at(p), x)
            /\ IF x.err
               THEN pc' = "crashed" /\ UNCHANGED _stopped
               ELSE pc' = pc /\ _stopped' = move_car(move(x.n))
    /\ UNCHANGED <<_battery, _had_driver, dev, kernel0, status, charging_run,
                   prev_battery, rd, decoded, probe, behind_quit>>

\* main_loop, MOUSEBUTTONUP: move_car(STOP) for button 1 only; the event's
\* position is not read
MouseButtonUp(b, x) ==
    /\ pc = "running"
    /\ b \in held
    /\ held' = held \ {b}
    /\ ev' = Event("MOUSEBUTTONUP", NoPos, b)
    /\ IF b = 1
       THEN /\ Transfer(STOP, x)
            /\ IF x.err
               THEN pc' = "crashed" /\ UNCHANGED _stopped
               ELSE pc' = pc /\ _stopped' = move_car(move(x.n))
       ELSE /\ NoTransfer
            /\ UNCHANGED <<pc, _stopped>>
    /\ UNCHANGED <<_battery, _had_driver, dev, kernel0, status, charging_run,
                   prev_battery, rd, decoded, probe, behind_quit>>

\* main_loop, MOUSEMOTION: stop_car when button 1 is held over STOP and the
\* car is not known to be stopped
MouseMotion(p, x) ==
    /\ pc = "running"
    /\ Deliverable(p)
    /\ ev' = Event("MOUSEMOTION", p, 0)
    /\ IF 1 \notin held
       THEN /\ NoTransfer
            /\ UNCHANGED <<pc, _stopped>>
       ELSE IF ~ InSurface(p)
       THEN /\ pc' = "crashed"
            /\ NoTransfer
            /\ UNCHANGED _stopped
       ELSE IF get_direction_at(p) = STOP /\ ~ _stopped
       THEN /\ Transfer(STOP, x)
            /\ IF x.err
               THEN pc' = "crashed" /\ UNCHANGED _stopped
               ELSE pc' = pc /\ _stopped' = stop_car(move(x.n))
       ELSE /\ NoTransfer
            /\ UNCHANGED <<pc, _stopped>>
    /\ UNCHANGED <<_battery, _had_driver, dev, kernel0, held, status,
                   charging_run, prev_battery, rd, decoded, probe, behind_quit>>

\* main_loop, UPDATEBATTERY: update_battery()
UpdateBattery(r) ==
    /\ pc = "running"
    /\ ev' = Event("UPDATEBATTERY", NoPos, 0)
    /\ out' = <<ReadCall(r)>>
    /\ Poll(r)
    /\ pc' = IF battery_status(r).raised THEN "crashed" ELSE pc
    /\ UNCHANGED <<_stopped, _had_driver, dev, kernel0, held, last_sent,
                   last_acked, rd, decoded, probe, behind_quit>>

\* release reattaching the kernel driver whether or not one was detached
release_always_attach(had_driver) ==
    <<Call("release_interface", 0, FALSE, 0, FALSE),
      Call("attach_kernel_driver", 0, FALSE, 0, FALSE)>>

\* USBCar.release: the calls made, and the device afterwards
release(had_driver) ==
    <<Call("release_interface", 0, FALSE, 0, FALSE)>>
        \o (IF had_driver THEN <<Call("attach_kernel_driver", 0, FALSE, 0, FALSE)>>
            ELSE <<>>)

\* QUIT without sys.exit(0): the for loop goes on to the events behind it
Quit_without_exit ==
    /\ pc = "running"
    /\ ev' = Event("QUIT", NoPos, 0)
    /\ out' = release(_had_driver)
    /\ dev' = [dev EXCEPT !.claimed = FALSE,
                          !.driver = IF _had_driver THEN TRUE ELSE @]
    /\ pc' = pc
    /\ behind_quit' \in 0 .. MaxQueued
    /\ UNCHANGED <<_stopped, _battery, _had_driver, kernel0, held, last_sent,
                   last_acked, status, charging_run, prev_battery, rd,
                   decoded, probe>>

\* main_loop, QUIT: pygame.quit(), release(), sys.exit(0); sys.exit raises
\* SystemExit inside the for loop, so the events queued behind QUIT in the
\* batch are never handled
Quit ==
    /\ pc = "running"
    /\ ev' = Event("QUIT", NoPos, 0)
    /\ out' = release(_had_driver)
    /\ dev' = [dev EXCEPT !.claimed = FALSE,
                          !.driver = IF _had_driver THEN TRUE ELSE @]
    /\ pc' = "exited"
    /\ behind_quit' \in 0 .. MaxQueued
    /\ UNCHANGED <<_stopped, _battery, _had_driver, kernel0, held, last_sent,
                   last_acked, status, charging_run, prev_battery, rd,
                   decoded, probe>>

\* the process is interrupted while the loop runs (KeyboardInterrupt):
\* the exception leaves main_loop
Interrupt ==
    /\ pc = "running"
    /\ ev' = Event("INTERRUPT", NoPos, 0)
    /\ out' = <<>>
    /\ pc' = "crashed"
    /\ UNCHANGED <<_stopped, _battery, _had_driver, dev, kernel0, held,
                   last_sent, last_acked, status, charging_run, prev_battery,
                   rd, decoded, probe, behind_quit>>

Next ==
    \/ \E r \in PollReads : Construct(r)
    \/ \E p \in EventPositions, b \in Buttons, x \in TransferOutcomes :
          MouseButtonDown(p, b, x)
    \/ \E b \in Buttons, x \in TransferOutcomes : MouseButtonUp(b, x)
    \/ \E p \in EventPositions, x \in TransferOutcomes : MouseMotion(p, x)
    \/ \E r \in PollReads : UpdateBattery(r)
    \/ Quit
    \/ Interrupt

Spec == Init /\ [][Next]_vars

(* ------------------------------------------------------------------ *)
(* Telemetry decoding alone, over every read outcome                   *)
(* ------------------------------------------------------------------ *)
InitTelemetry ==
    /\ Init
    /\ dev = [present |-> TRUE, driver |-> FALSE, claimed |-> FALSE]

Decode(r) ==
    /\ rd' = r
    /\ decoded' = battery_status(r)
    /\ UNCHANGED <<pc, _stopped, _battery, _had_driver, dev, kernel0, held, ev,
                   out, last_sent, last_acked, status, charging_run,
                   prev_battery, probe, behind_quit>>

NextTelemetry == \E r \in ReadOutcomes : Decode(r)

SpecTelemetry == InitTelemetry /\ [][NextTelemetry]_vars

(* ------------------------------------------------------------------ *)
(* The backplate alone: lookup at every point of the surface           *)
(* ------------------------------------------------------------------ *)
InitSurface ==
    /\ InitProgram
    /\ dev = [present |-> TRUE, driver |-> FALSE, claimed |-> FALSE]
    /\ \E pt \in Canvas : probe = Probe(K, W, pt)

\* whether setup_backplate paints triangle i of arr over pt
Painted(arr, i, pt) ==
    filled_trigon(ToInt(arr[i][1]), ToInt(arr[i][2]), ToInt(arr[i][3]),
                  ToInt(arr[i][4]), ToInt(arr[i][5]), ToInt(arr[i][6]), pt)

Lookup ==
    /\ ~ probe.done
    /\ InSurface(probe.pt)
    /\ probe' = [probe EXCEPT
                    !.done = TRUE,
                    !.hits = {i \in 1 .. Len(arrows) : Painted(arrows, i, probe.pt)},
                    !.looked = get_direction_at(probe.pt)]
    /\ UNCHANGED <<pc, _stopped, _battery, _had_driver, dev, kernel0, held, ev,
                   out, last_sent, last_acked, status, charging_run,
                   prev_battery, rd, decoded, behind_quit>>

SpecSurface == InitSurface /\ [][Lookup]_vars

(* ------------------------------------------------------------------ *)
(* The arrows alone: the triangles painted for other k and w           *)
(* ------------------------------------------------------------------ *)

\* the grid of surface points probed for the arrows the program does not use
GridStep == 5
Grid == {pt \in Canvas : pt[1] % GridStep = 0 /\ pt[2] % GridStep = 0}

\* k (in 1/SCALE) and w within (0, 1) and (1, 20), besides the program's own
OtherArrows == {<<100, 19>>, <<500, 19>>, <<900, 2>>, <<900, 19>>}

InitArrows ==
    /\ InitProgram
    /\ dev = [present |-> TRUE, driver |-> FALSE, claimed |-> FALSE]
    /\ \/ \E pt \in Canvas : probe = Probe(K, W, pt)
       \/ \E a \in OtherArrows, pt \in Grid : probe = Probe(a[1], a[2], pt)

Rasterize ==
    /\ ~ probe.done
    /\ LET arr == generate_arrows(probe.k, probe.w)
       IN probe' = [probe EXCEPT
                       !.done = TRUE,
                       !.hits = {i \in 1 .. Len(arr) : Painted(arr, i, probe.pt)},
                       !.looked = setup_backplate(arr, commands, probe.pt)]
    /\ UNCHANGED <<pc, _stopped, _battery, _had_driver, dev, kernel0, held, ev,
                   out, last_sent, last_acked, status, charging_run,
                   prev_battery, rd, decoded, behind_quit>>

SpecArrows == InitArrows /\ [][Rasterize]_vars

(* ------------------------------------------------------------------ *)
(* Properties                                                          *)
(* ------------------------------------------------------------------ *)

IsWrite(c) == c.op = "ctrl_transfer"
Writes == {i \in 1 .. Len(out) : IsWrite(out[i])}

\* a command write that returned a byte count other than one
FailedWrite(c) == IsWrite(c) /\ ~ c.err /\ c.n # 1

\* C1: every command byte passed to the device's control transfer, by
\* pointer-down, pointer-up or pointer-move handling, is one of the seven
\* Direction values.
C1_CommandBytesAreDirections ==
    /\ \A i \in Writes : out[i].payload \in Directions
    /\ \A i \in 1 .. Len(last_sent) : last_sent[i] \in Directions

C1_Witness ==
    /\ ev.type = "MOUSEBUTTONDOWN"
    /\ ev.pos = LeftPos
    /\ Writes = {1}
    /\ out[1].payload = LEFT

C3_ReleaseOnEveryExit ==
    (pc \in {"exited", "crashed"} /\ ev.type # "INIT")
        => (~ dev.claimed /\ dev.driver = kernel0)

\* C4: battery_status recovers only from a timeout (Offline); any other
\* transport error raised by the read leaves the method as an exception and
\* is not turned into a status value.
C4_OnlyTimeoutRecovered ==
    /\ rd.kind = "timeout"
          => (~ decoded.raised /\ decoded.value = "out of the garage")
    /\ rd.kind = "error" => decoded.raised

C6_MoveTrueIffOneByte ==
    \A i \in Writes :
        /\ Writes = {i}
        /\ last_sent = <<out[i].payload>>
        /\ ~ out[i].err => (out[i].ok <=> out[i].n = 1)
        /\ out[i].err => ~ out[i].ok

C6_Witness ==
    /\ Writes = {1}
    /\ ~ out[1].err
    /\ out[1].n = 2
    /\ ~ out[1].ok

\* C7: battery_status decodes byte 0x05 as Charging, byte 0x85 as Charged,
\* any other byte or an empty read as Unknown, and a read timeout as Offline.
C7_Decoding ==
    rd.kind \in {"data", "timeout"}
        => /\ ~ decoded.raised
           /\ decoded.value =
                 CASE rd.kind = "timeout" -> "out of the garage"
                   [] rd.kind = "data" /\ rd.data = <<5>> -> "charging"
                   [] rd.kind = "data" /\ rd.data = <<133>> -> "charged"
                   [] OTHER -> "unknown"

C7_Witness ==
    /\ rd.kind = "data"
    /\ rd.data = <<133>>
    /\ decoded.value = "charged"

\* C8: a Charged sample sets the estimate to 100 and an Unknown or Offline
\* sample sets it to Unknown, whatever the previous estimate was.
C8_NonChargingSample ==
    /\ status = "charged" => _battery = 100
    /\ status \in {"unknown", "out of the garage"} => _battery = None

\* [Charging, Charging, Offline] from Unknown: the estimate was 10 and is
\* Unknown
C8_Witness ==
    /\ status = "out of the garage"
    /\ prev_battery = 10
    /\ _battery = None

\* C9: a Charging sample on an Unknown estimate gives 0, each Charging sample
\* after it adds exactly 10 (the n-th in a row gives 10 * (n - 1)), and the
\* estimate does not decrease across Charging samples.
C9_ChargingSteps ==
    /\ charging_run > 0 => _battery = 10 * (charging_run - 1)
    /\ (status = "charging" /\ prev_battery = None) => _battery = 0
    /\ (status = "charging" /\ prev_battery # None)
          => (_battery - prev_battery = 10 /\ _battery >= prev_battery)

C9_Witness ==
    /\ charging_run = 3
    /\ prev_battery = 10
    /\ _battery = 20

\* C10: each pointer-down issues exactly one move, each primary pointer-up
\* issues exactly one move(STOP), and no event issues more than one command.
C10_OneMovePerPointerEvent ==
    /\ ev.type = "MOUSEBUTTONDOWN" => Cardinality(Writes) = 1
    /\ (ev.type = "MOUSEBUTTONUP" /\ ev.button = 1)
          => (Cardinality(Writes) = 1 /\ \A i \in Writes : out[i].payload = STOP)
    /\ Cardinality(Writes) <= 1

\* C10, where the lookup returns: a pointer-down on the surface issues one
\* move with the direction at its position.
C10_OnSurface ==
    (ev.type = "MOUSEBUTTONDOWN" /\ InSurface(ev.pos))
        => (Writes = {1} /\ out[1].payload = get_direction_at(ev.pos))

\* C10, the scenario: pointer-down inside the FORWARD triangle and then a
\* primary pointer-up write FORWARD and then STOP, one write each.
C10_ForwardThenStop ==
    [][(/\ ev.type = "MOUSEBUTTONDOWN"
        /\ ev.pos = FwdPos
        /\ pc = "running"
        /\ ev'.type = "MOUSEBUTTONUP"
        /\ ev'.button = 1)
          => (/\ Writes = {1}
              /\ out[1].payload = FORWARD
              /\ Len(out') = 1
              /\ IsWrite(out'[1])
              /\ out'[1].payload = STOP)]_vars

\* C11: a pointer-move sends a command only when button 1 is held, the
\* position resolves to STOP and the stopped flag is false, and that command
\* is STOP; in every other case (button not held, position inside a triangle,
\* vehicle already known-stopped) it sends nothing.
C11_MotionOnlyAutoStops ==
    [][ev'.type = "MOUSEMOTION"
          => /\ Cardinality({i \in 1 .. Len(out') : IsWrite(out'[i])}) <= 1
             /\ Len(out') <= 1
             /\ (out' # <<>>)
                   <=> (1 \in held /\ ev'.pos = BackPos /\ ~ _stopped)
             /\ out' # <<>> => (IsWrite(out'[1]) /\ out'[1].payload = STOP)
             /\ ev'.pos \in {FwdPos, LeftPos} => out' = <<>>]_vars

\* button 1 is held, the car was driven and stopped by a pointer-move over the
\* background
C11_Witness ==
    /\ ev.type = "MOUSEMOTION"
    /\ ev.pos = BackPos
    /\ 1 \in held
    /\ Writes = {1}
    /\ out[1].payload = STOP
    /\ out[1].ok
    /\ _stopped

\* C12: after release(), the interface is released and the kernel driver has
\* been reattached exactly once if construction detached one, and not at all
\* otherwise; the driver binding is what it was before construction.
Attaches == {i \in 1 .. Len(out) : out[i].op = "attach_kernel_driver"}
Releases == {i \in 1 .. Len(out) : out[i].op = "release_interface"}

C12_ReleaseRestoresDriver ==
    ev.type = "QUIT"
        => /\ Cardinality(Releases) = 1
           /\ Cardinality(Attaches) = (IF kernel0 THEN 1 ELSE 0)
           /\ _had_driver = kernel0
           /\ ~ dev.claimed
           /\ dev.driver = kernel0

C12_Witness ==
    /\ ev.type = "QUIT"
    /\ kernel0
    /\ Cardinality(Attaches) = 1
    /\ dev.driver

\* C15: the lookup of a pointer event never fails, also for a position
\* outside the surface: a pointer-down or pointer-move aborts the loop only
\* when its command write raised.
C15_LookupNeverFails ==
    (ev.type \in {"MOUSEBUTTONDOWN", "MOUSEMOTION"} /\ pc = "crashed")
        => \E i \in Writes : out[i].err

\* C16: pointer events leave the battery estimate alone and make no telemetry
\* read; a poll (timer tick, or the one at construction) makes exactly one
\* read and one estimator transition, sends no command and leaves the stopped
\* flag alone.
Reads(calls) == {i \in 1 .. Len(calls) : calls[i].op = "read"}

C16_OnlyPollsTouchBattery ==
    [][/\ ev'.type \in {"MOUSEBUTTONDOWN", "MOUSEBUTTONUP", "MOUSEMOTION"}
          => (/\ _battery' = _battery
              /\ status' = status
              /\ Reads(out') = {})
       /\ ev'.type = "UPDATEBATTERY"
          => (/\ Len(out') = 1
              /\ Reads(out') = {1}
              /\ _battery' = update_battery(_battery, status')
              /\ _stopped' = _stopped
              /\ last_sent' = last_sent
              /\ last_acked' = last_acked)
       /\ (ev'.type = "INIT" /\ pc' = "running")
          => (/\ Cardinality(Reads(out')) = 1
              /\ _battery' = update_battery(None, status')
              /\ last_sent' = <<>>)]_vars

\* a poll while the car is driven: the estimate moved from 0 to 10, the car
\* is still driven
C16_Witness ==
    /\ ev.type = "UPDATEBATTERY"
    /\ Reads(out) = {1}
    /\ status = "charging"
    /\ prev_battery = 0
    /\ _battery = 10
    /\ ~ _stopped
    /\ last_sent = <<FORWARD>>

\* C17: whenever no mouse button is held, the last command sent is STOP, or
\* none was sent.
C17_IdleMeansStopSent ==
    (pc = "running" /\ held = {}) => last_sent \in {<<>>, <<STOP>>}

\* C18: whenever the stopped flag is true, the last command the device
\* acknowledged is STOP, or none was acknowledged.
C18_StoppedMeansNotDriven == _stopped => last_acked \in {<<>>, <<STOP>>}

\* C19: after a STOP the device acknowledged, sent by any handler, the stopped
\* flag is true.
C19_AckedStopSetsFlag ==
    \A i \in Writes : (out[i].ok /\ out[i].payload = STOP) => _stopped

\* C20: once release() has run for the quit event, nothing more is done to
\* the device: no move, no battery_status and no second release, also when
\* events are queued behind QUIT in the same batch; release() runs at most
\* once.
Released == pc # "init" /\ dev.present /\ ~ dev.claimed

C20_NothingAfterRelease ==
    /\ [](Cardinality(Releases) <= 1)
    /\ [](Released => (pc = "exited" /\ ev.type = "QUIT"))
    /\ [][Released => (/\ out' = out
                       /\ dev' = dev
                       /\ last_sent' = last_sent
                       /\ last_acked' = last_acked
                       /\ status' = status
                       /\ pc' = pc)]_vars

\* the process has exited on QUIT with events still queued behind it
C20_Witness ==
    /\ pc = "exited"
    /\ ev.type = "QUIT"
    /\ behind_quit > 0
    /\ Releases = {1}
    /\ ~ dev.claimed

\* the direction each generated triangle is for, in the order generated
ArrowDirection ==
    <<FORWARD, RIGHT, REVERSE_RIGHT, REVERSE, REVERSE_LEFT, LEFT>>

\* whether the surface point pt lies in the generated triangle a, edges
\* included, with the corners as generated (not truncated), to 1/100 pixel
InsideExact(a, pt) ==
    LET c(v) == v \div 10
        px == c(pt[1] * SCALE)
        py == c(pt[2] * SCALE)
        d1 == Cross(c(a[1]), c(a[2]), c(a[3]), c(a[4]), px, py)
        d2 == Cross(c(a[3]), c(a[4]), c(a[5]), c(a[6]), px, py)
        d3 == Cross(c(a[5]), c(a[6]), c(a[1]), c(a[2]), px, py)
    IN  ~ ((d1 < 0 \/ d2 < 0 \/ d3 < 0) /\ (d1 > 0 \/ d2 > 0 \/ d3 > 0))

\* C13 as stated: lookup of a surface point inside the triangle of direction d
\* returns d, and lookup of a surface point outside all six triangles returns
\* STOP.
C13_LookupMatchesTriangles ==
    probe.done
        => /\ \A i \in 1 .. 6 :
                 InsideExact(arrows[i], probe.pt)
                     => probe.looked = ArrowDirection[i]
           /\ (\A i \in 1 .. 6 : ~ InsideExact(arrows[i], probe.pt))
                 => probe.looked = STOP

\* C13 as amended: lookup of a surface point inside the triangle of direction
\* d returns d; lookup returns STOP outside the six triangles as they are
\* painted, with their corners truncated to whole pixels and their edges
\* included; the painted triangle of d covers the generated one.
C13_LookupMatchesPainted ==
    probe.done
        => /\ \A i \in 1 .. 6 :
                 InsideExact(arrows[i], probe.pt)
                     => (i \in probe.hits /\ probe.looked = ArrowDirection[i])
           /\ \A i \in probe.hits : probe.looked = ArrowDirection[i]
           /\ probe.hits = {} => probe.looked = STOP

\* (180, 39) is on the painted top edge of the RIGHT triangle, whose generated
\* top edge is at y = 39.09: outside all six triangles, and RIGHT is read
C13_Witness ==
    /\ probe.done
    /\ probe.pt = <<180, 39>>
    /\ \A i \in 1 .. 6 : ~ InsideExact(arrows[i], probe.pt)
    /\ probe.hits = {2}
    /\ probe.looked = RIGHT

\* C14 as stated: for every k in (0, 1) and w in (1, 20), no point of the
\* surface is painted by two of the six triangles.
C14_NeverOverlapping == probe.done => Cardinality(probe.hits) <= 1

\* C14 as amended: for the k = 0.8 and w = 10 the program generates its arrows
\* with, no point of the surface is painted by two of the six triangles.
C14_ProgramArrowsDisjoint ==
    (probe.done /\ probe.k = K /\ probe.w = W)
        => Cardinality(probe.hits) <= 1

C14_Witness ==
    /\ probe.done
    /\ probe.k = K
    /\ probe.w = W
    /\ probe.pt = LeftPos
    /\ probe.hits = {6}

=============================================================================
